---- MODULE Spec2Model ----
(***************************************************************************)
(* The resolver of crates/puffin-resolve/src/lib.rs: `resolve` seeds one   *)
(* Request::Package per root requirement, then drains the response stream  *)
(* (unbounded channel -> map -> buffer_unordered(32) -> ready_chunks(32))  *)
(* until the in-flight set is empty after a chunk.                         *)
(***************************************************************************)
EXTENDS Bags, FiniteSets, Integers, Sequences, TLC

\* ------------------------------------------------------------------ bounds

\* Largest number of root requirements drawn from RootPool.
MaxRoots == 3

\* Number of identical root requirements of the burst run (one more than the
\* dispatcher's concurrency bound, so that a request has to wait).
BurstRoots == 33

\* ------------------------------------------------------- program constants

\* .buffer_unordered(32)
BufferSize == 32

\* .ready_chunks(32)
ChunkCapacity == 32

\* ------------------------------------------------- names and normalization

\* A package name is a sequence of characters.
Lowercase(ch) ==
    CASE ch = "A" -> "a"
      [] ch = "B" -> "b"
      [] ch = "C" -> "c"
      [] ch = "D" -> "d"
      [] OTHER -> ch

IsSeparator(ch) == ch \in {"-", "_", "."}

\* PackageName::normalize: runs of "-", "_", "." become one "-", then the
\* name is lowercased.
RECURSIVE normalize(_)
normalize(name) ==
    IF name = <<>> THEN <<>>
    ELSE LET ch == Head(name)
             rest == normalize(Tail(name))
         IN  IF IsSeparator(ch)
             THEN IF rest # <<>> /\ Head(rest) = "-" THEN rest ELSE <<"-">> \o rest
             ELSE <<Lowercase(ch)>> \o rest

\* ------------------------------------------------------------ requirements

NoVersionOrUrl == [kind |-> "None", specifiers |-> <<>>, url |-> ""]
VersionSpecifier(specifiers) ==
    [kind |-> "VersionSpecifier", specifiers |-> specifiers, url |-> ""]
Url(url) == [kind |-> "Url", specifiers |-> <<>>, url |-> url]

NoMarker == [kind |-> "none", key |-> "", value |-> ""]
ExtraMarker(extra) == [kind |-> "extra", key |-> "extra", value |-> extra]
EnvMarker(key, value) == [kind |-> "env", key |-> key, value |-> value]

\* pep508_rs::Requirement. `extras: None` is the empty set (the code reads it
\* through unwrap_or_default).
Requirement(name, version_or_url, extras, marker) ==
    [name |-> name, version_or_url |-> version_or_url, extras |-> extras,
     marker |-> marker]

\* The marker environment and the platform tags `resolve` is called with.
markers == [sys_platform |-> "linux"]
tags == {"py3-none-any", "cp311-cp311-linux_x86_64"}

\* ---------------------------------------------------------------- versions

\* Version::from_str on the version part of a wheel filename; 0 is Err.
VersionFromStr(s) ==
    CASE s = "1.0" -> 1
      [] s = "2.0" -> 2
      [] s = "3.0" -> 3
      [] OTHER -> 0

\* VersionSpecifier::contains
SpecifierContains(specifier, version) ==
    CASE specifier.op = ">=" -> version >= specifier.version
      [] specifier.op = "<" -> version < specifier.version
      [] specifier.op = "==" -> version = specifier.version
      [] OTHER -> FALSE

\* VersionSpecifiers::contains: every clause holds.
SpecifiersContain(specifiers, version) ==
    \A i \in 1..Len(specifiers) : SpecifierContains(specifiers[i], version)

\* ------------------------------------------------------------------- index

\* puffin_client::File, by the parts of its filename.
File(dist, version, filetags, ext) ==
    [dist |-> dist, version |-> version, tags |-> filetags, ext |-> ext]

Wheel(dist, version) == File(dist, version, {"py3-none-any"}, "whl")

pkgA == <<"a">>
pkgB == <<"b">>
pkgC == <<"c">>
pkgD == <<"d">>

\* SimpleJson.files of every project of the index, in index order.
Listings ==
    (pkgA :> <<Wheel("a", "1.0"), Wheel("a", "2.0")>>)
    @@ (pkgB :> <<Wheel("b", "1.0")>>)
    @@ (pkgC :> <<Wheel("c", "2.0"),
                  Wheel("c", "1.0"),
                  File("c", "3.0", {"cp311-cp311-win_amd64"}, "whl"),
                  File("c", "dev", {"py3-none-any"}, "whl"),
                  File("c", "3.0", {}, "tar.gz")>>)
    @@ (pkgD :> <<File("d", "1.0", {}, "tar.gz")>>)

\* Metadata21.requires_dist of every file of the index.
RequiresDist(file) ==
    CASE file = Wheel("a", "2.0") ->
           <<Requirement(<<"B">>, NoVersionOrUrl, {}, NoMarker),
             Requirement(<<"d">>, NoVersionOrUrl, {}, ExtraMarker("x"))>>
      [] file = Wheel("a", "1.0") ->
           <<Requirement(<<"C">>, VersionSpecifier(<<[op |-> ">=", version |-> 2]>>),
                         {}, NoMarker),
             Requirement(<<"d">>, NoVersionOrUrl, {}, EnvMarker("sys_platform", "win32"))>>
      [] file = Wheel("b", "1.0") ->
           <<Requirement(<<"A">>, NoVersionOrUrl, {}, NoMarker),
             Requirement(<<"c">>, VersionSpecifier(<<[op |-> "<", version |-> 2]>>),
                         {}, ExtraMarker("y"))>>
      [] OTHER -> <<>>

\* Metadata21 of a file: the version it declares and its dependencies.
Metadata21(file) ==
    [version |-> VersionFromStr(file.version), requires_dist |-> RequiresDist(file)]

\* Names whose fetches (listing or metadata) may fail with a transport error.
Unreliable == {pkgA, pkgB, pkgC}

\* ------------------------------------------------------ requests, responses

RequestPackage(requirement) ==
    [type |-> "Package", requirement |-> requirement, file |-> File("", "", {}, "")]
RequestVersion(requirement, file) ==
    [type |-> "Version", requirement |-> requirement, file |-> file]

\* Result<Response>. `file` is not part of Response::Version: it records which
\* file the metadata was fetched for.
ResponsePackage(files, requirement) ==
    [type |-> "Package", files |-> files, version |-> 0, requires_dist |-> <<>>,
     requirement |-> requirement, file |-> File("", "", {}, "")]
ResponseVersion(metadata, requirement, file) ==
    [type |-> "Version", files |-> <<>>, version |-> metadata.version,
     requires_dist |-> metadata.requires_dist, requirement |-> requirement,
     file |-> file]
ResponseErr(request) ==
    [type |-> "Err", files |-> <<>>, version |-> 0, requires_dist |-> <<>>,
     requirement |-> request.requirement, file |-> request.file]

\* pypi_client.simple(name) / pypi_client.file(file) on success, mapped to a
\* Response by the closure of package_stream.
Fetch(request) ==
    IF request.type = "Package"
    THEN ResponsePackage(Listings[normalize(request.requirement.name)],
                         request.requirement)
    ELSE ResponseVersion(Metadata21(request.file), request.requirement, request.file)

\* What a fetch can complete with.
Outcomes(request) ==
    {Fetch(request)}
    \cup (IF normalize(request.requirement.name) \in Unreliable
          THEN {ResponseErr(request)} ELSE {})

\* --------------------------------------------------------- candidate filter

\* Faulty variant: a URL requirement is filtered as a pin no listed version
\* meets.
SpecifiersUrlPinned(requirement) ==
    IF requirement.version_or_url.kind = "VersionSpecifier"
    THEN <<requirement.version_or_url.specifiers>>
    ELSE IF requirement.version_or_url.kind = "Url"
    THEN <<(<<[op |-> "==", version |-> 0]>>)>>
    ELSE <<>>

\* The specifiers the filter uses: those of a version requirement, none for a
\* URL or an unconstrained requirement.
Specifiers(requirement) ==
    IF requirement.version_or_url.kind = "VersionSpecifier"
    THEN <<requirement.version_or_url.specifiers>>
    ELSE <<>>

\* WheelFilename::from_str succeeds.
IsWheel(file) == file.ext = "whl"

\* WheelFilename::is_compatible
IsCompatible(file, platform) == file.tags \cap platform # {}

\* Faulty variant: the platform tags are not looked at.
QualifiesAnyPlatform(file, requirement) ==
    /\ IsWheel(file)
    /\ VersionFromStr(file.version) # 0
    /\ \A i \in 1..Len(Specifiers(requirement)) :
           SpecifiersContain(Specifiers(requirement)[i], VersionFromStr(file.version))

\* The closure of `find`: the file qualifies for the requirement.
Qualifies(file, requirement) ==
    /\ IsWheel(file)
    /\ VersionFromStr(file.version) # 0
    /\ IsCompatible(file, tags)
    /\ \A i \in 1..Len(Specifiers(requirement)) :
           SpecifiersContain(Specifiers(requirement)[i], VersionFromStr(file.version))

RECURSIVE RevFind(_, _, _)
\* iter().rev().find(..) from position i downwards: the index of the first
\* file that qualifies, 0 if none.
RevFind(files, i, requirement) ==
    IF i = 0 THEN 0
    ELSE IF Qualifies(files[i], requirement) THEN i
    ELSE RevFind(files, i - 1, requirement)

RECURSIVE FwdFind(_, _, _)
FwdFind(files, i, requirement) ==
    IF i > Len(files) THEN 0
    ELSE IF Qualifies(files[i], requirement) THEN i
    ELSE FwdFind(files, i + 1, requirement)

\* Faulty variant: the listing is scanned in listing order (no `rev`).
FindFileForward(files, requirement) == FwdFind(files, 1, requirement)

\* metadata.files.iter().rev().find(..): the index of the chosen file, 0 if none.
FindFile(files, requirement) == RevFind(files, Len(files), requirement)

\* ---------------------------------------------------------- marker evaluator

\* Requirement::evaluate_markers
EvaluateMarkers(dependency, env, extras) ==
    CASE dependency.marker.kind = "none" -> TRUE
      [] dependency.marker.kind = "extra" -> dependency.marker.value \in extras
      [] dependency.marker.kind = "env" ->
           env[dependency.marker.key] = dependency.marker.value
      [] OTHER -> FALSE

\* -------------------------------------------------------------------- state

VARIABLES
    requirements,   \* the root requirements `resolve` is called with
    package_sink,   \* requests sent and not yet taken by buffer_unordered
    in_progress,    \* the fetches buffer_unordered is executing (a bag)
    items,          \* the results ready_chunks has gathered in the current poll
    chunk,          \* the rest of the chunk the loop is iterating over
    in_flight,      \* HashSet<PackageName>
    resolution,     \* HashMap<PackageName, Version>
    pc,             \* "seed", "await", "chunk", "done", "error"
    returned,       \* what `resolve` returned
    sent,           \* history: every request ever sent (a bag)
    handled,        \* history: number of results taken out of a chunk
    listed,         \* history: the Response::Package results processed (a bag)
    finalized,      \* history: the Response::Version results processed (a bag)
    origin,         \* history: the (requirement, file) behind each entry
    errSeen         \* history: a fetch has failed

vars == <<requirements, package_sink, in_progress, items, chunk, in_flight,
          resolution, pc, returned, sent, handled, listed, finalized, origin,
          errSeen>>

\* -------------------------------------------------------------------- roots

RootPool ==
    <<Requirement(<<"A">>, VersionSpecifier(<<[op |-> ">=", version |-> 1]>>),
                  {}, NoMarker),
      Requirement(<<"a">>, VersionSpecifier(<<[op |-> "<", version |-> 2]>>),
                  {}, NoMarker),
      Requirement(<<"b">>, NoVersionOrUrl, {"y"}, NoMarker),
      Requirement(<<"d">>, NoVersionOrUrl, {}, NoMarker),
      Requirement(<<"c">>, Url("https://example.org/c.whl"), {}, NoMarker)>>

RECURSIVE Pick(_, _)
\* The requirements of RootPool at the indices of `chosen`, in pool order.
Pick(chosen, i) ==
    IF i > Len(RootPool) THEN <<>>
    ELSE (IF i \in chosen THEN <<RootPool[i]>> ELSE <<>>) \o Pick(chosen, i + 1)

Burst == [i \in 1..BurstRoots |-> RootPool[4]]

RootChoices ==
    {Pick(chosen, 1) : chosen \in {s \in SUBSET (1..Len(RootPool)) :
                                       Cardinality(s) <= MaxRoots}}
    \cup {Burst}

EmptyMap == [n \in {} |-> 0]

NotReturned == [status |-> "pending", resolution |-> EmptyMap]

Init ==
    /\ requirements \in RootChoices
    /\ package_sink = <<>>
    /\ in_progress = EmptyBag
    /\ items = <<>>
    /\ chunk = <<>>
    /\ in_flight = {}
    /\ resolution = EmptyMap
    /\ pc = "seed"
    /\ returned = NotReturned
    /\ sent = EmptyBag
    /\ handled = 0
    /\ listed = EmptyBag
    /\ finalized = EmptyBag
    /\ origin = EmptyMap
    /\ errSeen = FALSE

RECURSIVE SeqToBag(_)
SeqToBag(s) == IF s = <<>> THEN EmptyBag ELSE SetToBag({Head(s)}) (+) SeqToBag(Tail(s))

\* ------------------------------------------------------------------ seeding

\* Faulty variant: roots that repeat a normalized name share one request.
SeedDeduplicated ==
    LET first == {i \in 1..Len(requirements) :
                     \A j \in 1..(i - 1) :
                         normalize(requirements[j].name) # normalize(requirements[i].name)}
        nth(k) == CHOOSE i \in first : Cardinality({j \in first : j < i}) = k - 1
    IN  /\ pc = "seed"
        /\ package_sink' = [k \in 1..Cardinality(first) |->
                                RequestPackage(requirements[nth(k)])]
        /\ in_flight' = {normalize(requirements[i].name) : i \in 1..Len(requirements)}
        /\ sent' = SeqToBag(package_sink')
        /\ pc' = "await"
        /\ UNCHANGED <<requirements, listed, in_progress, items, chunk, resolution,
                       returned, handled, finalized, origin, errSeen>>

\* Lines 66-71: one Request::Package per root, each name into in_flight.
Seed ==
    /\ pc = "seed"
    /\ package_sink' = [i \in 1..Len(requirements) |-> RequestPackage(requirements[i])]
    /\ in_flight' = {normalize(requirements[i].name) : i \in 1..Len(requirements)}
    /\ sent' = SeqToBag(package_sink')
    /\ pc' = "await"
    /\ UNCHANGED <<requirements, listed, in_progress, items, chunk, resolution, returned,
                   handled, finalized, origin, errSeen>>

\* --------------------------------------------------------------- dispatcher

\* Faulty variant: no bound on the executing fetches.
HasCapacityAlways(queue) == TRUE

\* buffer_unordered takes another request only below its bound.
HasCapacity(queue) == BagCardinality(queue) < BufferSize

\* buffer_unordered has spawned all it can.
Filled == package_sink = <<>> \/ ~HasCapacity(in_progress)

\* buffer_unordered: the next request of the channel starts executing.
Spawn ==
    /\ pc = "await"
    /\ package_sink # <<>>
    /\ HasCapacity(in_progress)
    /\ in_progress' = in_progress (+) SetToBag({Head(package_sink)})
    /\ package_sink' = Tail(package_sink)
    /\ UNCHANGED <<requirements, listed, items, chunk, in_flight, resolution, pc, returned,
                   sent, handled, finalized, origin, errSeen>>

\* An executing fetch completes and ready_chunks gathers its result; a full
\* buffer of results is yielded at once.
FutureReady ==
    /\ pc = "await"
    /\ Filled
    /\ \E request \in BagToSet(in_progress) :
       \E result \in Outcomes(request) :
          /\ in_progress' = in_progress (-) SetToBag({request})
          /\ errSeen' = (errSeen \/ result.type = "Err")
          /\ IF Len(items) + 1 >= ChunkCapacity
             THEN /\ chunk' = Append(items, result)
                  /\ items' = <<>>
                  /\ pc' = "chunk"
             ELSE /\ items' = Append(items, result)
                  /\ UNCHANGED <<chunk, pc>>
    /\ UNCHANGED <<requirements, listed, package_sink, in_flight, resolution, returned,
                   sent, handled, finalized, origin>>

\* Faulty variant: with nothing queued, executing or gathered the stream ends
\* and the loop falls through to the return.
ChunkReadyOrEnd ==
    /\ pc = "await"
    /\ Filled
    /\ IF items # <<>>
       THEN /\ chunk' = items
            /\ items' = <<>>
            /\ pc' = "chunk"
            /\ UNCHANGED returned
       ELSE /\ package_sink = <<>>
            /\ in_progress = EmptyBag
            /\ pc' = "done"
            /\ returned' = [status |-> "ok", resolution |-> resolution]
            /\ UNCHANGED <<chunk, items>>
    /\ UNCHANGED <<requirements, listed, package_sink, in_progress, in_flight, resolution,
                   sent, handled, finalized, origin, errSeen>>

\* No further fetch is ready: ready_chunks yields what it gathered.
ChunkReady ==
    /\ pc = "await"
    /\ Filled
    /\ items # <<>>
    /\ chunk' = items
    /\ items' = <<>>
    /\ pc' = "chunk"
    /\ UNCHANGED <<requirements, listed, package_sink, in_progress, in_flight, resolution,
                   returned, sent, handled, finalized, origin, errSeen>>

\* ---------------------------------------------------------- resolution loop

\* Faulty variant: the failed result is skipped and the loop goes on.
PropagateSkipped ==
    /\ chunk' = Tail(chunk)
    /\ handled' = handled + 1
    /\ UNCHANGED <<requirements, listed, package_sink, in_progress, items, in_flight,
                   resolution, pc, returned, sent, finalized, origin, errSeen>>

\* Line 78, `result?`: the error is returned, the rest of the chunk dropped.
Propagate ==
    /\ pc' = "error"
    /\ returned' = [status |-> "err", resolution |-> EmptyMap]
    /\ chunk' = Tail(chunk)
    /\ handled' = handled + 1
    /\ UNCHANGED <<requirements, listed, package_sink, in_progress, items, in_flight,
                   resolution, sent, finalized, origin, errSeen>>

ResultErr ==
    /\ pc = "chunk"
    /\ chunk # <<>>
    /\ Head(chunk).type = "Err"
    /\ Propagate

\* Lines 80-114: the requests sent for a Response::Package (one
\* Request::Version for the chosen file, none when no file qualifies).
PackageRequests(response) ==
    LET found == FindFile(response.files, response.requirement)
    IN  IF found = 0 THEN <<>>
        ELSE <<RequestVersion(response.requirement, response.files[found])>>

\* Faulty variant: a requirement with no qualifying file gives up its place in
\* the in-flight set.
HandlePackageReleasing ==
    /\ pc = "chunk"
    /\ chunk # <<>>
    /\ Head(chunk).type = "Package"
    /\ package_sink' = package_sink \o PackageRequests(Head(chunk))
    /\ sent' = sent (+) SeqToBag(PackageRequests(Head(chunk)))
    /\ chunk' = Tail(chunk)
    /\ handled' = handled + 1
    /\ listed' = listed (+) SetToBag({Head(chunk)})
    /\ in_flight' = IF PackageRequests(Head(chunk)) = <<>>
                    THEN in_flight \ {normalize(Head(chunk).requirement.name)}
                    ELSE in_flight
    /\ UNCHANGED <<requirements, in_progress, items, resolution, pc,
                   returned, finalized, origin, errSeen>>

HandlePackage ==
    /\ pc = "chunk"
    /\ chunk # <<>>
    /\ Head(chunk).type = "Package"
    /\ package_sink' = package_sink \o PackageRequests(Head(chunk))
    /\ sent' = sent (+) SeqToBag(PackageRequests(Head(chunk)))
    /\ chunk' = Tail(chunk)
    /\ handled' = handled + 1
    /\ listed' = listed (+) SetToBag({Head(chunk)})
    /\ UNCHANGED <<requirements, in_progress, items, in_flight, resolution, pc,
                   returned, finalized, origin, errSeen>>

\* Faulty variant: the name is left in the in-flight set.
RemoveInFlightKept(set, name) == set

\* Line 123: in_flight.remove(&normalized_name)
RemoveInFlight(set, name) == set \ {name}

\* Line 124: resolution.insert(normalized_name, metadata.version)
Insert(map, name, version) ==
    [n \in DOMAIN map \cup {name} |-> IF n = name THEN version ELSE map[n]]

\* Faulty variant: a pinned name is not recognised.
ContainsKeyNever(map, name) == FALSE

\* Line 138: resolution.contains_key(&normalized_name)
ContainsKey(map, name) == name \in DOMAIN map

\* Faulty variant: the marker is not evaluated.
MarkerAppliesAlways(dependency, requirement) == TRUE

\* Lines 128-134: the dependency applies under the requirement's extras.
MarkerApplies(dependency, requirement) ==
    EvaluateMarkers(dependency, markers, requirement.extras)

\* Faulty variant: a name in flight is not recognised.
AlreadyInFlightNever(set, name) == FALSE

\* Line 142: in_flight.insert(normalized_name) reports "already present".
AlreadyInFlight(set, name) == name \in set

RECURSIVE EnqueueDependencies(_, _, _, _)
\* Lines 127-149: the loop over metadata.requires_dist; st is the in-flight set
\* and the requests sent so far.
EnqueueDependencies(deps, requirement, map, st) ==
    IF deps = <<>> THEN st
    ELSE LET dependency == Head(deps)
             normalized_name == normalize(dependency.name)
             next ==
                 IF ~MarkerApplies(dependency, requirement) THEN st
                 ELSE IF ContainsKey(map, normalized_name) THEN st
                 ELSE IF AlreadyInFlight(st.in_flight, normalized_name) THEN st
                 ELSE [in_flight |-> st.in_flight \cup {normalized_name},
                       out |-> Append(st.out, RequestPackage(dependency))]
         IN  EnqueueDependencies(Tail(deps), requirement, map, next)

\* Lines 121-149: the resolution, the in-flight set and the requests sent
\* after a Response::Version.
VersionStep(response, set, map) ==
    LET normalized_name == normalize(response.requirement.name)
        inserted == Insert(map, normalized_name, response.version)
        st == EnqueueDependencies(
                  response.requires_dist, response.requirement, inserted,
                  [in_flight |-> RemoveInFlight(set, normalized_name), out |-> <<>>])
    IN  [resolution |-> inserted, in_flight |-> st.in_flight, out |-> st.out]

\* Lines 115-150: Response::Version.
HandleVersion ==
    /\ pc = "chunk"
    /\ chunk # <<>>
    /\ Head(chunk).type = "Version"
    /\ LET response == Head(chunk)
           step == VersionStep(response, in_flight, resolution)
       IN  /\ resolution' = step.resolution
           /\ in_flight' = step.in_flight
           /\ package_sink' = package_sink \o step.out
           /\ sent' = sent (+) SeqToBag(step.out)
           /\ finalized' = finalized (+) SetToBag({response})
           /\ origin' = Insert(origin, normalize(response.requirement.name),
                               [requirement |-> response.requirement,
                                file |-> response.file])
    /\ chunk' = Tail(chunk)
    /\ handled' = handled + 1
    /\ UNCHANGED <<requirements, listed, in_progress, items, pc, returned, errSeen>>

\* Faulty variant: the loop stops after the first chunk, whatever is in flight.
EndOfChunkAlways ==
    /\ pc = "chunk"
    /\ chunk = <<>>
    /\ pc' = "done"
    /\ returned' = [status |-> "ok", resolution |-> resolution]
    /\ UNCHANGED <<requirements, listed, package_sink, in_progress, items, chunk, in_flight,
                   resolution, sent, handled, finalized, origin, errSeen>>

\* Lines 154-159: after the chunk, stop if nothing is in flight.
EndOfChunk ==
    /\ pc = "chunk"
    /\ chunk = <<>>
    /\ IF in_flight = {}
       THEN /\ pc' = "done"
            /\ returned' = [status |-> "ok", resolution |-> resolution]
       ELSE /\ pc' = "await"
            /\ UNCHANGED returned
    /\ UNCHANGED <<requirements, listed, package_sink, in_progress, items, chunk, in_flight,
                   resolution, sent, handled, finalized, origin, errSeen>>

Next ==
    \/ Seed
    \/ Spawn
    \/ FutureReady
    \/ ChunkReady
    \/ ResultErr
    \/ HandlePackage
    \/ HandleVersion
    \/ EndOfChunk

Spec == Init /\ [][Next]_vars

\* Every step of the loop is taken when it can be, and every executing fetch
\* completes.
FairSpec == Spec /\ WF_vars(Next)

\* ------------------------------------------------------------------ claims

\* The requests and responses about a normalized name that are still somewhere
\* in the dispatcher or in the chunk being processed.
Outstanding(name) ==
    \/ \E i \in 1..Len(package_sink) : normalize(package_sink[i].requirement.name) = name
    \/ \E r \in BagToSet(in_progress) : normalize(r.requirement.name) = name
    \/ \E i \in 1..Len(items) : normalize(items[i].requirement.name) = name
    \/ \E i \in 1..Len(chunk) : normalize(chunk[i].requirement.name) = name

\* A name left in the in-flight set by a requirement that was dropped for want
\* of a qualifying candidate.
Dangling(name) == pc \in {"await", "chunk"} /\ name \in in_flight /\ ~Outstanding(name)

RootNames == {normalize(requirements[i].name) : i \in 1..Len(requirements)}

DistinctRoots ==
    \A i, j \in 1..Len(requirements) :
        i # j => normalize(requirements[i].name) # normalize(requirements[j].name)

\* C1. Termination: with every fetch completing and none failing, a run on a
\* non-empty root set eventually returns a Resolution.
Termination == (requirements # <<>>) => <>(pc = "done" \/ errSeen)

RECURSIVE SequentialRun(_, _, _)
\* Lines 76-159 under the schedule in which the fetches complete one at a time,
\* in the order they were sent, each response in a chunk of its own: the
\* Resolution returned.
SequentialRun(queue, set, map) ==
    IF queue = <<>> THEN map
    ELSE LET response == Fetch(Head(queue))
             step == IF response.type = "Package"
                     THEN [resolution |-> map, in_flight |-> set,
                           out |-> PackageRequests(response)]
                     ELSE VersionStep(response, set, map)
         IN  IF step.in_flight = {} THEN step.resolution
             ELSE SequentialRun(Tail(queue) \o step.out, step.in_flight,
                                step.resolution)

\* C2. Determinism: every successful run returns the mapping that the
\* sequential schedule on the same roots and index returns (already for roots
\* with pairwise distinct names).
Deterministic ==
    (pc = "done" /\ DistinctRoots) =>
        returned.resolution =
            SequentialRun([i \in 1..Len(requirements) |-> RequestPackage(requirements[i])],
                          RootNames, EmptyMap)

\* C3. Disjointness: between the processing of two responses, and at return, no
\* name is both in the in-flight set and in Resolution.
Disjoint == in_flight \cap DOMAIN resolution = {}

\* A response has pinned a name while other names are still in flight.
DisjointWitness ==
    /\ pc = "chunk"
    /\ pkgA \in DOMAIN resolution
    /\ pkgB \in in_flight
    /\ BagCardinality(finalized) > 0

\* C4. Append-only: no step removes an entry of Resolution or changes the
\* version it maps to.
AppendOnly ==
    [][\A n \in DOMAIN resolution :
           n \in DOMAIN resolution' /\ resolution'[n] = resolution[n]]_vars

\* C5. A requirement dropped for want of a qualifying candidate does not
\* prevent success: once its name dangles in the in-flight set, the run still
\* returns (a Resolution, unless a fetch fails).
DroppedRunReturns == (\E n \in in_flight : Dangling(n)) ~> (pc = "done" \/ errSeen)


\* The loop is about to take a failed result out of the chunk.
AtFailedResult == pc = "chunk" /\ chunk # <<>> /\ Head(chunk).type = "Err"

\* C6. Error propagation: a failed fetch is always delivered and ends the run
\* with an error; no Resolution is exposed, nothing is sent again, and no step
\* follows the error return.
ErrorPropagates ==
    /\ [](errSeen => (pc # "done" /\ returned.status # "ok"))
    /\ [](pc = "error" => (returned.status = "err" /\ returned.resolution = EmptyMap))
    /\ [][AtFailedResult =>
            /\ pc' = "error"
            /\ returned'.status = "err"
            /\ sent' = sent
            /\ package_sink' = package_sink
            /\ in_progress' = in_progress
            /\ resolution' = resolution
            /\ in_flight' = in_flight]_vars
    /\ [][pc # "error"]_vars
    /\ errSeen ~> (pc = "error")

\* The root a<2 was pinned, then a fetch for its dependency c failed.
ErrorPropagatesWitness ==
    /\ requirements = <<RootPool[2]>>
    /\ pc = "error"
    /\ pkgA \in DOMAIN resolution
    /\ pkgC \in in_flight
    /\ returned.status = "err"

\* C7. Compatibility: every entry of Resolution comes from a Request::Version
\* that was sent for a file of its requirement's own listing; the file is a
\* wheel with a parsable version, its tags meet the active tags, and its
\* version satisfies every clause of the requirement's specifiers.
Compatible ==
    \A n \in DOMAIN resolution :
        LET requirement == origin[n].requirement
            file == origin[n].file
            version == VersionFromStr(file.version)
        IN  /\ normalize(requirement.name) = n
            /\ \E i \in 1..Len(Listings[n]) : Listings[n][i] = file
            /\ BagIn(RequestVersion(requirement, file), sent)
            /\ file.ext = "whl"
            /\ version # 0
            /\ file.tags \cap tags # {}
            /\ requirement.version_or_url.kind = "VersionSpecifier" =>
                   \A i \in 1..Len(requirement.version_or_url.specifiers) :
                       SpecifierContains(requirement.version_or_url.specifiers[i],
                                         version)
            /\ resolution[n] = Metadata21(file).version

\* c was pinned for the dependency C>=2, past three later files of its listing
\* that do not qualify.
CompatibleWitness ==
    /\ pkgC \in DOMAIN resolution
    /\ origin[pkgC].requirement.version_or_url.kind = "VersionSpecifier"
    /\ origin[pkgC].file = Wheel("c", "2.0")

\* The dependencies of a Response::Version whose marker holds under the
\* extras of the requirement being finalized.
Satisfied(response) ==
    {response.requires_dist[i] : i \in
        {j \in 1..Len(response.requires_dist) :
            EvaluateMarkers(response.requires_dist[j], markers,
                            response.requirement.extras)}}

\* C8. Marker gating: processing a Response::Version sends requests and puts
\* names in flight only for dependencies whose marker holds; a name is in
\* Resolution only if it is a root or such a dependency of a finalized
\* requirement.
MarkerGating ==
    /\ [][(pc = "chunk" /\ chunk # <<>> /\ Head(chunk).type = "Version") =>
            /\ in_flight' \ in_flight
                   \subseteq {normalize(d.name) : d \in Satisfied(Head(chunk))}
            /\ \A r \in BagToSet(sent') :
                   CopiesIn(r, sent') > CopiesIn(r, sent) =>
                       (r.type = "Package" /\ r.requirement \in Satisfied(Head(chunk)))]_vars
    /\ [](\A n \in DOMAIN resolution :
              \/ n \in RootNames
              \/ \E f \in BagToSet(finalized) :
                     n \in {normalize(d.name) : d \in Satisfied(f)})

\* The run on the root A>=1 has returned: a and b were finalized without the
\* extras "x" and "y", so d and c were never requested.
MarkerGatingWitness ==
    /\ requirements = <<RootPool[1]>>
    /\ pc = "done"
    /\ BagCardinality(finalized) = 2
    /\ pkgC \notin DOMAIN resolution
    /\ \A r \in BagToSet(sent) : normalize(r.requirement.name) \notin {pkgC, pkgD}

\* C9. No requeueing: with pairwise distinct root names, a name is the subject
\* of at most one Request::Package and one Request::Version and is inserted
\* into Resolution at most once; the cycle a -> b -> a from the root a ends
\* with exactly a and b resolved.
NoRequeue ==
    DistinctRoots =>
        /\ \A r \in BagToSet(sent) :
               /\ CopiesIn(r, sent) = 1
               /\ \A q \in BagToSet(sent) :
                      (q.type = r.type
                       /\ normalize(q.requirement.name) = normalize(r.requirement.name))
                          => q = r
        /\ \A f \in BagToSet(finalized) :
               /\ CopiesIn(f, finalized) = 1
               /\ \A g \in BagToSet(finalized) :
                      normalize(g.requirement.name) = normalize(f.requirement.name)
                          => g = f
        /\ (requirements = <<RootPool[1]>> /\ pc = "done") =>
               DOMAIN returned.resolution = {pkgA, pkgB}

\* The cyclic run from the root a has returned: b's dependency on a was met
\* with a already pinned.
NoRequeueWitness ==
    /\ requirements = <<RootPool[1]>>
    /\ pc = "done"
    /\ returned.resolution = (pkgA :> 2) @@ (pkgB :> 1)

\* C10. Concurrency bound: never more than 32 fetches execute; a request leaves
\* the queue only for a free slot, in sending order; and every request sent is
\* queued, executing, gathered, in the chunk, or was handled.
ConcurrencyBound ==
    /\ [](BagCardinality(in_progress) <= 32)
    /\ [](BagCardinality(sent) =
              Len(package_sink) + BagCardinality(in_progress) + Len(items)
              + Len(chunk) + handled)
    /\ [][BagCardinality(in_progress) >= 32 =>
              /\ Len(package_sink') >= Len(package_sink)
              /\ SubSeq(package_sink', 1, Len(package_sink)) = package_sink
              /\ BagCardinality(in_progress') <= BagCardinality(in_progress)]_vars
    /\ [][BagCardinality(in_progress') > BagCardinality(in_progress) =>
              /\ package_sink # <<>>
              /\ in_progress' = in_progress (+) SetToBag({Head(package_sink)})
              /\ package_sink' = Tail(package_sink)]_vars

\* The bound is reached and a request waits in the queue.
ConcurrencyBoundWitness ==
    /\ pc = "await"
    /\ BagCardinality(in_progress) = 32
    /\ package_sink # <<>>

\* ------------------------------------------------ the candidate filter alone

\* Longest listing of the filter runs.
MaxListing == 3

\* The files the listings of the filter runs are made of: two compatible
\* wheels, a wheel for another platform, a wheel whose version does not parse,
\* and a source archive.
FilePool ==
    {Wheel("c", "1.0"), Wheel("c", "2.0"),
     File("c", "3.0", {"cp311-cp311-win_amd64"}, "whl"),
     File("c", "dev", {"py3-none-any"}, "whl"),
     File("c", "3.0", {}, "tar.gz")}

FilterListings == UNION {[1..k -> FilePool] : k \in 0..MaxListing}

\* The requirements of the filter runs: unconstrained, c>=1, c<2, c>=1,<2 and
\* a URL.
FilterRequirements ==
    {Requirement(<<"c">>, NoVersionOrUrl, {}, NoMarker),
     Requirement(<<"c">>, VersionSpecifier(<<[op |-> ">=", version |-> 1]>>),
                 {}, NoMarker),
     Requirement(<<"c">>, VersionSpecifier(<<[op |-> "<", version |-> 2]>>),
                 {}, NoMarker),
     Requirement(<<"c">>, VersionSpecifier(<<[op |-> ">=", version |-> 1],
                                             [op |-> "<", version |-> 2]>>),
                 {}, NoMarker),
     Requirement(<<"c">>, Url("https://example.org/c.whl"), {}, NoMarker)}

\* A run on one root whose Response::Package, for any listing the index may
\* serve, is the chunk about to be processed (after Seed, Spawn, FutureReady
\* and ChunkReady).
FilterInit ==
    \E requirement \in FilterRequirements, files \in FilterListings :
        /\ requirements = <<requirement>>
        /\ package_sink = <<>>
        /\ in_progress = EmptyBag
        /\ items = <<>>
        /\ chunk = <<ResponsePackage(files, requirement)>>
        /\ in_flight = {normalize(requirement.name)}
        /\ resolution = EmptyMap
        /\ pc = "chunk"
        /\ returned = NotReturned
        /\ sent = SetToBag({RequestPackage(requirement)})
        /\ handled = 0
        /\ listed = EmptyBag
        /\ finalized = EmptyBag
        /\ origin = EmptyMap
        /\ errSeen = FALSE

FilterNext == HandlePackage

FilterSpec == FilterInit /\ [][FilterNext]_vars

\* The loop is about to process a Response::Package.
AtListing == pc = "chunk" /\ chunk # <<>> /\ Head(chunk).type = "Package"

\* The positions of a listing whose file is a wheel with a parsable version,
\* compatible tags and a version within every clause of the requirement.
QualifyingAt(files, requirement) ==
    {i \in 1..Len(files) :
        /\ files[i].ext = "whl"
        /\ VersionFromStr(files[i].version) # 0
        /\ files[i].tags \cap tags # {}
        /\ requirement.version_or_url.kind = "VersionSpecifier" =>
               \A k \in 1..Len(requirement.version_or_url.specifiers) :
                   SpecifierContains(requirement.version_or_url.specifiers[k],
                                     VersionFromStr(files[i].version))}

\* C11. Candidate filter: on a Response::Package the file chosen is the
\* qualifying one at the greatest listing position, and none is chosen iff
\* none qualifies; for c>=1 and the listing [1.0, 2.0] it is 2.0.
FilterChoice ==
    /\ [][AtListing =>
            LET files == Head(chunk).files
                requirement == Head(chunk).requirement
                ok == QualifyingAt(files, requirement)
            IN  IF ok = {} THEN package_sink' = package_sink
                ELSE \E i \in ok :
                        /\ \A j \in ok : j <= i
                        /\ package_sink' =
                               Append(package_sink,
                                      RequestVersion(requirement, files[i]))]_vars
    /\ [](\A r \in BagToSet(listed) :
              (/\ r.files = <<Wheel("c", "1.0"), Wheel("c", "2.0")>>
               /\ r.requirement.version_or_url =
                      VersionSpecifier(<<[op |-> ">=", version |-> 1]>>))
                  => package_sink = <<RequestVersion(r.requirement, Wheel("c", "2.0"))>>)

\* The unconstrained requirement met the listing [2.0, 1.0, sdist]: 1.0 was
\* chosen, the last qualifying file, not the greatest version.
FilterChoiceWitness ==
    \E r \in BagToSet(listed) :
        /\ r.files = <<Wheel("c", "2.0"), Wheel("c", "1.0"), File("c", "3.0", {}, "tar.gz")>>
        /\ r.requirement.version_or_url = NoVersionOrUrl
        /\ package_sink = <<RequestVersion(r.requirement, Wheel("c", "1.0"))>>

\* Processing the Response::Version would put a name in flight or add or
\* change an entry of Resolution.
WouldChange(response) ==
    LET step == VersionStep(response, in_flight, resolution)
    IN  step.in_flight # in_flight \/ step.resolution # resolution

\* The Request::Version still queued or executing.
PendingVersions ==
    {package_sink[i] : i \in {j \in 1..Len(package_sink) :
                                  package_sink[j].type = "Version"}}
    \cup {r \in BagToSet(in_progress) : r.type = "Version"}

\* C12. Abandonment is harmless: when the loop has stopped on an empty
\* in-flight set, no metadata fetch left in the dispatcher would, once
\* processed, put a name in flight or add or change an entry of Resolution.
AbandonmentHarmless ==
    (pc = "done") => \A q \in PendingVersions : ~WouldChange(Fetch(q))

\* C13. Every name in flight is eventually finalized: a name that is in
\* in_flight is later a key of Resolution, unless the run aborts with an error.
InFlightFinalized ==
    \A name \in {pkgA, pkgB, pkgC, pkgD} :
        (name \in in_flight) ~> (name \in DOMAIN resolution \/ pc = "error")

\* The loop is about to process a Response::Version.
AtMetadata == pc = "chunk" /\ chunk # <<>> /\ Head(chunk).type = "Version"

Seeding ==
    /\ []((pc # "seed" /\ handled = 0) =>
              /\ BagCardinality(sent) = Len(requirements)
              /\ \A i \in 1..Len(requirements) :
                     CopiesIn(RequestPackage(requirements[i]), sent) =
                         Cardinality({j \in 1..Len(requirements) :
                                          requirements[j] = requirements[i]})
              /\ in_flight = RootNames)
    /\ [][pc # "seed" =>
            \A r \in BagToSet(sent') :
                (r.type = "Package" /\ CopiesIn(r, sent') > CopiesIn(r, sent)) =>
                    /\ normalize(r.requirement.name) \in in_flight' \ in_flight
                    /\ \A q \in BagToSet(sent') :
                           (/\ q.type = "Package"
                            /\ normalize(q.requirement.name) = normalize(r.requirement.name)
                            /\ CopiesIn(q, sent') > CopiesIn(q, sent))
                               => (q = r /\ CopiesIn(r, sent') = CopiesIn(r, sent) + 1)]_vars

\* The roots A>=1 and a<2, one name, got a request each; later the dependency
\* b was requested as it went in flight.
SeedingWitness ==
    /\ requirements = <<RootPool[1], RootPool[2]>>
    /\ CopiesIn(RequestPackage(RootPool[1]), sent) = 1
    /\ CopiesIn(RequestPackage(RootPool[2]), sent) = 1
    /\ pkgB \in in_flight
    /\ \E r \in BagToSet(sent) : r.type = "Package" /\ normalize(r.requirement.name) = pkgB

\* C16. Frame of a Response::Package: processing it changes neither
\* Resolution nor the in-flight set and sends either one Request::Version, for
\* the same requirement and a file of the listing, or nothing (exactly when no
\* file qualifies); Resolution and the in-flight set change only at seeding
\* and on a Response::Version.
ListingFrame ==
    /\ [][AtListing =>
            /\ resolution' = resolution
            /\ in_flight' = in_flight
            /\ returned' = returned
            /\ IF QualifyingAt(Head(chunk).files, Head(chunk).requirement) = {}
               THEN package_sink' = package_sink /\ sent' = sent
               ELSE \E i \in 1..Len(Head(chunk).files) :
                       LET request == RequestVersion(Head(chunk).requirement,
                                                     Head(chunk).files[i])
                       IN  /\ package_sink' = Append(package_sink, request)
                           /\ sent' = sent (+) SetToBag({request})]_vars
    /\ [][(resolution' # resolution \/ in_flight' # in_flight) =>
              (pc = "seed" \/ AtMetadata)]_vars

\* The listing of d, which has no wheel, was processed: nothing was sent and d
\* is still in flight.
ListingFrameWitness ==
    /\ requirements = <<RootPool[3], RootPool[4]>>
    /\ Dangling(pkgD)
    /\ \E r \in BagToSet(listed) : normalize(r.requirement.name) = pkgD
    /\ \E r \in BagToSet(listed) : normalize(r.requirement.name) = pkgB
    /\ RequestVersion(RootPool[3], Wheel("b", "1.0")) \in BagToSet(sent)

\* The requirement for the same name, extras and marker with no constraint.
Unconstrained(requirement) ==
    Requirement(requirement.name, NoVersionOrUrl, requirement.extras,
                requirement.marker)

\* C17. A URL requirement is filtered like an unconstrained one: on its
\* Response::Package the file chosen is the one chosen for the same listing
\* and the same name without constraint, which is the last wheel of the
\* listing with a parsable version and compatible tags (none if there is none).
UrlUnconstrained ==
    [][(AtListing /\ Head(chunk).requirement.version_or_url.kind = "Url") =>
          LET files == Head(chunk).files
              requirement == Head(chunk).requirement
              twin == PackageRequests(ResponsePackage(files, Unconstrained(requirement)))
              wheels == {i \in 1..Len(files) :
                            /\ files[i].ext = "whl"
                            /\ VersionFromStr(files[i].version) # 0
                            /\ files[i].tags \cap tags # {}}
          IN  /\ IF twin = <<>> THEN package_sink' = package_sink
                 ELSE package_sink' =
                          Append(package_sink, RequestVersion(requirement, twin[1].file))
              /\ IF wheels = {} THEN package_sink' = package_sink
                 ELSE \E i \in wheels :
                         /\ \A j \in wheels : j <= i
                         /\ package_sink' =
                                Append(package_sink,
                                       RequestVersion(requirement, files[i]))]_vars

\* The URL requirement met the listing [2.0, 1.0, 3.0 for another platform]:
\* 1.0 was chosen, as for the unconstrained requirement.
UrlUnconstrainedWitness ==
    \E r \in BagToSet(listed) :
        /\ r.requirement.version_or_url.kind = "Url"
        /\ r.files = <<Wheel("c", "2.0"), Wheel("c", "1.0"),
                       File("c", "3.0", {"cp311-cp311-win_amd64"}, "whl")>>
        /\ package_sink = <<RequestVersion(r.requirement, Wheel("c", "1.0"))>>

\* C18. A successful return is closed and covers the roots: when a Resolution
\* is returned the in-flight set is empty, every root name is a key of it, and
\* so is the name of every dependency, with a marker that held, of every
\* requirement finalized in the run.
ClosedReturn ==
    (pc = "done") =>
        /\ returned.status = "ok"
        /\ returned.resolution = resolution
        /\ in_flight = {}
        /\ RootNames \subseteq DOMAIN returned.resolution
        /\ \A f \in BagToSet(finalized) :
               \A d \in Satisfied(f) :
                   normalize(d.name) \in DOMAIN returned.resolution

\* The run on the root b[y] has returned a, b and c: a came in as b's
\* dependency and c through the extra y.
ClosedReturnWitness ==
    /\ requirements = <<RootPool[3]>>
    /\ pc = "done"
    /\ DOMAIN returned.resolution = {pkgA, pkgB, pkgC}
    /\ BagCardinality(finalized) = 3

\* C19. The emptiness test follows a processed chunk and the stream never
\* ends: the loop leaves its await only with a non-empty chunk and returns a
\* Resolution only after a chunk it has processed; so a run on no roots sends
\* no request, gets no chunk and never returns.
EmptyRootsHang ==
    /\ [][(pc = "await" /\ pc' # "await") => (pc' = "chunk" /\ chunk' # <<>>)]_vars
    /\ [][(pc # "done" /\ pc' = "done") =>
              (pc = "chunk" /\ chunk = <<>> /\ handled > 0 /\ in_flight = {})]_vars
    /\ [](requirements = <<>> =>
              /\ pc \in {"seed", "await"}
              /\ sent = EmptyBag
              /\ package_sink = <<>>
              /\ in_progress = EmptyBag
              /\ chunk = <<>>
              /\ handled = 0
              /\ returned = NotReturned)

\* The run on no roots has seeded nothing and awaits the stream.
EmptyRootsHangWitness ==
    /\ requirements = <<>>
    /\ pc = "await"
    /\ in_flight = {}
    /\ ~ENABLED Next

====
